---- MODULE Spec2Model ----
(***************************************************************************)
(* Request construction for the search cluster: single operations         *)
(* (Search, Index, Create, Update, Delete) and the two batch requests      *)
(* (MultiSearchRequest, BulkIndexRequest) that serialize their members     *)
(* as header line / body line pairs.                                       *)
(*                                                                         *)
(* Text is modelled as a sequence of tokens.  A path is the sequence of    *)
(* its non-empty pieces ("/", a name, ",", "_search"); concatenating the   *)
(* empty string adds no token.  JSON text is the sequence of its           *)
(* punctuation and string literals; "\n" is the newline byte that          *)
(* json.Encoder.Encode appends.                                            *)
(***************************************************************************)
EXTENDS Integers, Sequences, FiniteSets, TLC

VARIABLES
    op,      \* the method that was called ("" before any call)
    pc,      \* position inside the called method
    req,     \* receiver when it is a single operation
    batch,   \* receiver when it is a batch (sequence of members)
    i,       \* loop index of the batch loops (1-based)
    w,       \* the io.Writer's contents / the []byte result
    lines,   \* MultiSearchRequest.Body: the local `lines` slice
    err,     \* returned error ("nil" when none)
    path,    \* result of Path()
    vals,    \* result of Values()
    logged   \* number of log.Printf diagnostics emitted

vars == <<op, pc, req, batch, i, w, lines, err, path, vals, logged>>

(***************************************************************************)
(* Bounds                                                                  *)
(***************************************************************************)
MaxList  == 2   \* longest Indices / Types list of a SearchRequest
MaxVals  == 2   \* most values under one Params key
MaxBatch == 3   \* most members of a batch

(***************************************************************************)
(* Text helpers                                                            *)
(***************************************************************************)
NL == "\n"

\* string concatenation on token sequences: an empty string adds nothing
Cat(s, t) == s \o SelectSeq(t, LAMBDA x : x # "")

RECURSIVE Join(_, _)
\* strings.Join(elems, sep)
Join(elems, sep) ==
    IF Len(elems) = 0 THEN <<>>
    ELSE IF Len(elems) = 1 THEN Cat(<<>>, <<elems[1]>>)
    ELSE Cat(Cat(<<elems[1]>>, <<sep>>), Join(Tail(elems), sep))

RECURSIVE Flatten(_)
\* bytes.Join / concatenation of a sequence of token sequences
Flatten(ss) == IF ss = <<>> THEN <<>> ELSE Head(ss) \o Flatten(Tail(ss))

RECURSIVE JoinLines(_, _)
\* bytes.Join(lines, sep)
JoinLines(ls, sep) ==
    IF Len(ls) = 0 THEN <<>>
    ELSE IF Len(ls) = 1 THEN ls[1]
    ELSE ls[1] \o sep \o JoinLines(Tail(ls), sep)

\* All sequences over S of length 0..n
SeqsUpTo(S, n) == UNION {[1..k -> S] : k \in 0..n}

(***************************************************************************)
(* url.Values: a Go map that may be nil                                    *)
(***************************************************************************)
EmptyMap == [k \in {} |-> <<>>]
NilValues == [isNil |-> TRUE, m |-> EmptyMap]
MakeValues(m) == [isNil |-> FALSE, m |-> m]

\* url.Values.Get: first value of the key, "" when the key has none
Get(v, k) ==
    IF k \in DOMAIN v.m /\ Len(v.m[k]) > 0 THEN v.m[k][1] ELSE ""

(***************************************************************************)
(* encoding/json                                                           *)
(***************************************************************************)
\* the keys that occur, in Go's byte order (encoding/json sorts map keys)
KeyOrder == <<"_id", "_index", "_type", "name", "refresh", "routing">>

SortedKeys(S) == SelectSeq(KeyOrder, LAMBDA k : k \in S)

RECURSIVE MarshalPairs(_, _)
MarshalPairs(m, ks) ==
    IF ks = <<>> THEN <<>>
    ELSE <<Head(ks), ":", m[Head(ks)]>>
         \o (IF Len(ks) > 1 THEN <<",">> ELSE <<>>)
         \o MarshalPairs(m, Tail(ks))

\* json.Marshal of a map[string]string
MarshalStringMap(m) == <<"{">> \o MarshalPairs(m, SortedKeys(DOMAIN m)) \o <<"}">>

\* json.Marshal of a []string
MarshalStringList(l) ==
    <<"[">> \o
    Flatten([j \in 1..Len(l) |-> IF j < Len(l) THEN <<l[j], ",">> ELSE <<l[j]>>])
    \o <<"]">>

\* A payload (Source, Query): ok = FALSE is a value json cannot marshal
\* (a channel, a func, a Marshaler that fails).
Doc(name)  == [ok |-> TRUE,  doc |-> [k \in {"name"} |-> name]]
BadDoc     == [ok |-> FALSE, doc |-> [k \in {"name"} |-> "chan"]]

\* json.Marshal(payload): [err, out]
Marshal(v) ==
    IF v.ok THEN [err |-> "nil", out |-> MarshalStringMap(v.doc)]
    ELSE [err |-> "json: unsupported type", out |-> <<>>]

\* json.NewEncoder(w).Encode(v) for a marshal result: nothing is written
\* when marshalling fails, otherwise the text and a newline.
Encode(stream, mres) ==
    IF mres.err # "nil" THEN [err |-> mres.err, w |-> stream]
    ELSE [err |-> "nil", w |-> stream \o mres.out \o <<NL>>]

(***************************************************************************)
(* SearchRequest                                                           *)
(***************************************************************************)
Names == {"a", "b", ""}

SearchRequest(indices, types, query, params) ==
    [kind |-> "search", Indices |-> indices, Types |-> types,
     Query |-> query, Params |-> params]

PathNoAll(r) ==
    CASE Len(r.Indices) = 0 /\ Len(r.Types) = 0 ->
            Cat(<<>>, <<"/", "_search">>)
      [] Len(r.Indices) > 0 /\ Len(r.Types) = 0 ->
            Cat(Cat(<<"/">>, Join(r.Indices, ",")), <<"/", "_search">>)
      [] Len(r.Indices) = 0 /\ Len(r.Types) > 0 ->
            Cat(Cat(<<"/">>, Join(r.Types, ",")), <<"/", "_search">>)
      [] Len(r.Indices) > 0 /\ Len(r.Types) > 0 ->
            Cat(Cat(Cat(Cat(<<"/">>, Join(r.Indices, ",")), <<"/">>),
                    Join(r.Types, ",")), <<"/", "_search">>)
      [] OTHER -> <<"panic: unreachable">>

\* SearchRequest.Path
SearchPath(r) ==
    CASE Len(r.Indices) = 0 /\ Len(r.Types) = 0 ->
            Cat(<<>>, <<"/", "_search">>)
      [] Len(r.Indices) > 0 /\ Len(r.Types) = 0 ->
            Cat(Cat(<<"/">>, Join(r.Indices, ",")), <<"/", "_search">>)
      [] Len(r.Indices) = 0 /\ Len(r.Types) > 0 ->
            Cat(Cat(<<"/", "_all", "/">>, Join(r.Types, ",")), <<"/", "_search">>)
      [] Len(r.Indices) > 0 /\ Len(r.Types) > 0 ->
            Cat(Cat(Cat(Cat(<<"/">>, Join(r.Indices, ",")), <<"/">>),
                    Join(r.Types, ",")), <<"/", "_search">>)
      [] OTHER -> <<"panic: unreachable">>

\* SearchRequest.Values
SearchValues(r) == IF r.Params.isNil THEN MakeValues(EmptyMap) ELSE r.Params

\* SearchRequest.SerializeBatchHeader's headerLine, with omitempty
MarshalHeaderLine(r) ==
    <<"{">>
    \o (IF Len(r.Indices) > 0
          THEN <<"index", ":">> \o MarshalStringList(r.Indices) ELSE <<>>)
    \o (IF Len(r.Indices) > 0 /\ Len(r.Types) > 0 THEN <<",">> ELSE <<>>)
    \o (IF Len(r.Types) > 0
          THEN <<"type", ":">> \o MarshalStringList(r.Types) ELSE <<>>)
    \o <<"}">>

(***************************************************************************)
(* Index / Create / Update / Delete                                        *)
(***************************************************************************)
WriteKinds == {"index", "create", "update", "delete"}

WriteRequest(kind, index, t, id, params, source) ==
    IF kind = "delete"
    THEN [kind |-> kind, Index |-> index, Type |-> t, Id |-> id, Params |-> params]
    ELSE [kind |-> kind, Index |-> index, Type |-> t, Id |-> id, Params |-> params,
          Source |-> source]

\* A BatchFireable implemented outside this package whose header and body
\* are both encoded with json.NewEncoder(w).Encode
OtherRequest(meta, source) == [kind |-> "other", Meta |-> meta, Source |-> source]

\* url.Values.Get replaced by "last value of the key"
GetLast(v, k) ==
    IF k \in DOMAIN v.m /\ Len(v.m[k]) > 0 THEN v.m[k][Len(v.m[k])] ELSE ""

\* v.Get(k) as used by actionMetadata
ParamValue(v, k) == Get(v, k)

\* actionMetadata: the identity entries, then every Params key assigned over
\* them; the result has the single key `action`.
actionMetadata(action, index, t, id, v) ==
    LET base == [k \in {"_index", "_type", "_id"} |->
                    CASE k = "_index" -> index [] k = "_type" -> t [] OTHER -> id]
        metadata == [k \in {"_index", "_type", "_id"} \cup DOMAIN v.m |->
                        IF k \in DOMAIN v.m THEN ParamValue(v, k) ELSE base[k]]
    IN  [a \in {action} |-> metadata]

\* json.Marshal of actionMetadata's map[string]interface{}
MarshalActionMetadata(am) ==
    LET action == CHOOSE a \in DOMAIN am : TRUE
    IN  <<"{", action, ":">> \o MarshalStringMap(am[action]) \o <<"}">>

\* Values() of IndexRequest, CreateRequest, UpdateRequest, DeleteRequest
WriteValues(r) == r.Params

\* Values() of any single operation
Values(r) == IF r.kind = "search" THEN SearchValues(r) ELSE WriteValues(r)

\* SerializeBatchHeader of a batch member: [err, w]
SerializeBatchHeader(r, stream) ==
    CASE r.kind = "search" ->
            Encode(stream, [err |-> "nil", out |-> MarshalHeaderLine(r)])
      [] r.kind = "other" ->
            Encode(stream, Marshal(r.Meta))
      [] OTHER ->
            Encode(stream,
                   [err |-> "nil",
                    out |-> MarshalActionMetadata(
                                actionMetadata(r.kind, r.Index, r.Type, r.Id, r.Params))])

\* Serialize in which a Delete writes an empty line
SerializeDeleteLine(r, stream) ==
    CASE r.kind = "search" -> Encode(stream, Marshal(r.Query))
      [] r.kind = "delete" -> [err |-> "nil", w |-> stream \o <<NL>>]
      [] OTHER             -> Encode(stream, Marshal(r.Source))

\* Serialize of a batch member: [err, w]
Serialize(r, stream) ==
    CASE r.kind = "search" -> Encode(stream, Marshal(r.Query))
      [] r.kind = "delete" -> [err |-> "nil", w |-> stream]
      [] OTHER             -> Encode(stream, Marshal(r.Source))

(***************************************************************************)
(* Inputs                                                                  *)
(***************************************************************************)
NoReq == [kind |-> "none"]

Lists == SeqsUpTo(Names, MaxList)

\* receivers of SearchRequest.Path
SearchRequests ==
    {SearchRequest(ix, ty, Doc("q"), NilValues) : ix \in Lists, ty \in Lists}

ParamKeys == {"refresh", "routing", "_index"}
ParamVals == {"true", "x"}
ValueLists == SeqsUpTo(ParamVals, MaxVals)

ParamMaps == UNION {[K -> ValueLists] : K \in SUBSET ParamKeys}

AllParams == {NilValues} \cup {MakeValues(m) : m \in ParamMaps}

\* receivers of SerializeBatchHeader
WriteRequests ==
    {WriteRequest(k, "foo", "bar", "123", p, Doc("John")) :
        k \in WriteKinds, p \in AllParams}

FewParams ==
    {NilValues, MakeValues(EmptyMap), MakeValues([k \in {"refresh"} |-> <<"true">>])}

\* receivers of Values()
ValueRequests ==
    {WriteRequest(k, "foo", "bar", "123", p, Doc("John")) :
        k \in WriteKinds, p \in FewParams}
    \cup {SearchRequest(<<"a">>, <<>>, Doc("q"), p) : p \in FewParams}

Refresh == MakeValues([k \in {"refresh"} |-> <<"true">>])

\* members of a BulkIndexRequest
BulkMembers ==
    { WriteRequest("index",  "foo", "bar", "123", Refresh,   Doc("John")),
      WriteRequest("index",  "foo", "bar", "124", NilValues, BadDoc),
      WriteRequest("create", "foo", "bar", "125", NilValues, Doc("Jane")),
      WriteRequest("update", "foo", "bar", "126", NilValues, Doc("Jack")),
      WriteRequest("delete", "foo", "bar", "321", NilValues, Doc("")),
      OtherRequest(BadDoc, Doc("Jill")) }

\* members of a MultiSearchRequest whose element type is SearchRequest
SearchMembers ==
    { SearchRequest(<<"a">>, <<>>,    Doc("q1"), NilValues),
      SearchRequest(<<>>,    <<"b">>, Doc("q2"), NilValues),
      SearchRequest(<<"a", "b">>, <<"a">>, BadDoc, NilValues) }

\* members of a MultiSearchRequest whose element type is BatchFireable
FireableMembers == SearchMembers \cup {OtherRequest(BadDoc, Doc("q3"))}

Batches(M) == SeqsUpTo(M, MaxBatch)

(***************************************************************************)
(* Initial state: nothing has been called                                  *)
(***************************************************************************)
Init ==
    /\ op = ""
    /\ pc = "idle"
    /\ req = NoReq
    /\ batch = <<>>
    /\ i = 0
    /\ w = <<>>
    /\ lines = <<>>
    /\ err = "nil"
    /\ path = <<>>
    /\ vals = NilValues
    /\ logged = 0

(***************************************************************************)
(* Single operations                                                       *)
(***************************************************************************)
CallSearchPath ==
    /\ pc = "idle"
    /\ \E r \in SearchRequests :
          /\ req' = r
          /\ path' = SearchPath(r)
    /\ op' = "SearchRequest.Path"
    /\ pc' = "done"
    /\ UNCHANGED <<batch, i, w, lines, err, vals, logged>>

CallValues ==
    /\ pc = "idle"
    /\ \E r \in ValueRequests :
          /\ req' = r
          /\ vals' = Values(r)
    /\ op' = "Values"
    /\ pc' = "done"
    /\ UNCHANGED <<batch, i, w, lines, err, path, logged>>

CallSerializeBatchHeader ==
    /\ pc = "idle"
    /\ \E r \in WriteRequests :
          LET res == SerializeBatchHeader(r, <<>>)
          IN  /\ req' = r
              /\ w' = res.w
              /\ err' = res.err
    /\ op' = "SerializeBatchHeader"
    /\ pc' = "done"
    /\ UNCHANGED <<batch, i, lines, path, vals, logged>>

(***************************************************************************)
(* BulkIndexRequest.Serialize, one step per member serialization          *)
(***************************************************************************)
BulkOp == "BulkIndexRequest.Serialize"

CallBulkSerialize ==
    /\ pc = "idle"
    /\ \E br \in Batches(BulkMembers) : batch' = br
    /\ op' = BulkOp
    /\ pc' = "header"
    /\ i' = 1
    /\ UNCHANGED <<req, w, lines, err, path, vals, logged>>

\* request.SerializeBatchHeader(w); err != nil returns err
BulkHeader ==
    /\ op = BulkOp /\ pc = "header" /\ i <= Len(batch)
    /\ LET res == SerializeBatchHeader(batch[i], w)
       IN  /\ w' = res.w
           /\ err' = res.err
           /\ pc' = IF res.err # "nil" THEN "done" ELSE "body"
    /\ UNCHANGED <<op, req, batch, i, lines, path, vals, logged>>

\* a body step that puts the body line in front of the member's header line
BulkBodySwapped ==
    /\ op = BulkOp /\ pc = "body"
    /\ LET res == Serialize(batch[i], <<>>)
           hdr == SerializeBatchHeader(batch[i], <<>>).w
       IN  /\ w' = SubSeq(w, 1, Len(w) - Len(hdr)) \o res.w \o hdr
           /\ err' = res.err
           /\ pc' = IF res.err # "nil" THEN "done" ELSE "header"
           /\ i' = IF res.err # "nil" THEN i ELSE i + 1
    /\ UNCHANGED <<op, req, batch, lines, path, vals, logged>>

\* a body step that skips a failing member instead of returning
BulkBodyContinue ==
    /\ op = BulkOp /\ pc = "body"
    /\ LET res == Serialize(batch[i], w)
       IN  /\ w' = res.w
           /\ err' = "nil"
           /\ pc' = "header"
           /\ i' = i + 1
    /\ UNCHANGED <<op, req, batch, lines, path, vals, logged>>

\* request.Serialize(w); err != nil returns err
BulkBody ==
    /\ op = BulkOp /\ pc = "body"
    /\ LET res == Serialize(batch[i], w)
       IN  /\ w' = res.w
           /\ err' = res.err
           /\ pc' = IF res.err # "nil" THEN "done" ELSE "header"
           /\ i' = IF res.err # "nil" THEN i ELSE i + 1
    /\ UNCHANGED <<op, req, batch, lines, path, vals, logged>>

\* the range loop is exhausted: return nil
BulkReturn ==
    /\ op = BulkOp /\ pc = "header" /\ i > Len(batch)
    /\ err' = "nil"
    /\ pc' = "done"
    /\ UNCHANGED <<op, req, batch, i, w, lines, path, vals, logged>>

(***************************************************************************)
(* MultiSearchRequest.Serialize (streaming), one step per member           *)
(* serialization                                                           *)
(***************************************************************************)
MSearchOp == "MultiSearchRequest.Serialize"

CallMultiSearchSerialize ==
    /\ pc = "idle"
    /\ \E r \in Batches(FireableMembers) : batch' = r
    /\ op' = MSearchOp
    /\ pc' = "header"
    /\ i' = 1
    /\ UNCHANGED <<req, w, lines, err, path, vals, logged>>

\* searchRequest.SerializeBatchHeader(w); err != nil logs and continues
MultiSearchHeader ==
    /\ op = MSearchOp /\ pc = "header" /\ i <= Len(batch)
    /\ LET res == SerializeBatchHeader(batch[i], w)
       IN  /\ w' = res.w
           /\ IF res.err # "nil"
              THEN /\ logged' = logged + 1
                   /\ i' = i + 1
                   /\ pc' = "header"
              ELSE /\ pc' = "body"
                   /\ UNCHANGED <<i, logged>>
    /\ UNCHANGED <<op, req, batch, lines, err, path, vals>>

\* a body step that returns the member's error
MultiSearchBodyFailFast ==
    /\ op = MSearchOp /\ pc = "body"
    /\ LET res == Serialize(batch[i], w)
       IN  /\ w' = res.w
           /\ err' = res.err
           /\ pc' = IF res.err # "nil" THEN "done" ELSE "header"
           /\ i' = IF res.err # "nil" THEN i ELSE i + 1
    /\ UNCHANGED <<op, req, batch, lines, path, vals, logged>>

\* searchRequest.Serialize(w); err != nil logs and continues
MultiSearchBody ==
    /\ op = MSearchOp /\ pc = "body"
    /\ LET res == Serialize(batch[i], w)
       IN  /\ w' = res.w
           /\ logged' = IF res.err # "nil" THEN logged + 1 ELSE logged
    /\ i' = i + 1
    /\ pc' = "header"
    /\ UNCHANGED <<op, req, batch, lines, err, path, vals>>

\* the range loop is exhausted: return nil
MultiSearchReturn ==
    /\ op = MSearchOp /\ pc = "header" /\ i > Len(batch)
    /\ err' = "nil"
    /\ pc' = "done"
    /\ UNCHANGED <<op, req, batch, i, w, lines, path, vals, logged>>

(***************************************************************************)
(* MultiSearchRequest.Body (buffer, then join), one step per loop          *)
(* iteration                                                               *)
(***************************************************************************)
MSBodyOp == "MultiSearchRequest.Body"

CallMultiSearchBody ==
    /\ pc = "idle"
    /\ \E r \in Batches(SearchMembers) : batch' = r
    /\ op' = MSBodyOp
    /\ pc' = "loop"
    /\ i' = 1
    /\ lines' = <<>>
    /\ UNCHANGED <<req, w, err, path, vals, logged>>

\* one iteration: marshal the header, marshal the body, append both lines
\* only when both succeeded
MultiSearchBodyIteration ==
    /\ op = MSBodyOp /\ pc = "loop" /\ i <= Len(batch)
    /\ LET headerBuf == [err |-> "nil", out |-> MarshalHeaderLine(batch[i])]
           bodyBuf   == Marshal(batch[i].Query)
       IN  IF headerBuf.err # "nil" \/ bodyBuf.err # "nil"
           THEN /\ logged' = logged + 1
                /\ UNCHANGED lines
           ELSE /\ lines' = Append(Append(lines, headerBuf.out), bodyBuf.out)
                /\ UNCHANGED logged
    /\ i' = i + 1
    /\ UNCHANGED <<op, pc, req, batch, w, err, path, vals>>

\* return append(bytes.Join(lines, "\n"), '\n'), nil
MultiSearchBodyReturn ==
    /\ op = MSBodyOp /\ pc = "loop" /\ i > Len(batch)
    /\ w' = JoinLines(lines, <<NL>>) \o <<NL>>
    /\ err' = "nil"
    /\ pc' = "done"
    /\ UNCHANGED <<op, req, batch, i, lines, path, vals, logged>>

(***************************************************************************)
(* Specification                                                           *)
(***************************************************************************)
Next ==
    \/ CallSearchPath
    \/ CallValues
    \/ CallSerializeBatchHeader
    \/ CallBulkSerialize
    \/ BulkHeader
    \/ BulkBody
    \/ BulkReturn
    \/ CallMultiSearchSerialize
    \/ MultiSearchHeader
    \/ MultiSearchBody
    \/ MultiSearchReturn
    \/ CallMultiSearchBody
    \/ MultiSearchBodyIteration
    \/ MultiSearchBodyReturn

Spec == Init /\ [][Next]_vars

Done(o) == op = o /\ pc = "done"

(***************************************************************************)
(* Vocabulary of the properties                                            *)
(***************************************************************************)
HeaderText(m)  == SerializeBatchHeader(m, <<>>).w
BodyText(m)    == Serialize(m, <<>>).w
HeaderFails(m) == SerializeBatchHeader(m, <<>>).err # "nil"
BodyFails(m)   == Serialize(m, <<>>).err # "nil"
Fails(m)       == HeaderFails(m) \/ BodyFails(m)

\* header(m1) body(m1) ... header(mn) body(mn)
Pairs(b, n) == Flatten([j \in 1..n |-> HeaderText(b[j]) \o BodyText(b[j])])

HasFailure(b) == \E j \in 1..Len(b) : Fails(b[j])
FirstFailure(b) ==
    CHOOSE k \in 1..Len(b) : Fails(b[k]) /\ \A j \in 1..(k - 1) : ~Fails(b[j])

CountNL(s) == Cardinality({j \in 1..Len(s) : s[j] = NL})
Deletes(b) == Cardinality({j \in 1..Len(b) : b[j].kind = "delete"})

\* the newline-terminated lines of a text, in order
TextLines(s) ==
    LET ends == {j \in 1..Len(s) : s[j] = NL}
        nth(n) == CHOOSE e \in ends : Cardinality({f \in ends : f <= e}) = n
        start(n) == IF n = 1 THEN 1 ELSE nth(n - 1) + 1
    IN  [n \in 1..Cardinality(ends) |-> SubSeq(s, start(n), nth(n) - 1)]

\* the header and body texts, without their newline, of the members that
\* serialize completely
GoodLines(b) ==
    LET strip(t) == SubSeq(t, 1, Len(t) - 1)
    IN  Flatten([j \in 1..Len(b) |->
                    IF Fails(b[j]) THEN <<>>
                    ELSE <<strip(HeaderText(b[j])), strip(BodyText(b[j]))>>])

MultiSearchDone == Done(MSearchOp) \/ Done(MSBodyOp)

(***************************************************************************)
(* C1: while BulkIndexRequest.Serialize has met no failure, the stream     *)
(* holds exactly header(m1) body(m1) ... for the members already passed,   *)
(* in sequence order, followed by the current member's header when its     *)
(* body is the next thing to write; at the return it holds the pairs of    *)
(* all members.                                                            *)
(***************************************************************************)
C1_BulkOrder ==
    (op = BulkOp /\ err = "nil") =>
        /\ i \in 1..(Len(batch) + 1)
        /\ w = Pairs(batch, i - 1)
               \o (IF pc = "body" THEN HeaderText(batch[i]) ELSE <<>>)
        /\ (pc = "done" => i = Len(batch) + 1)

C1_Witness ==
    /\ Done(BulkOp) /\ err = "nil"
    /\ Len(batch) >= 2
    /\ batch[1] # batch[2]
    /\ \E j \in 1..Len(batch) : BodyText(batch[j]) # <<>>

(***************************************************************************)
(* C2: BulkIndexRequest.Serialize returns an error exactly when a member   *)
(* fails; the error is that of the first failing member k, and the stream  *)
(* holds the pairs of members 1..k-1, plus k's header line when the        *)
(* failure was in k's body, and nothing of a later member.                 *)
(***************************************************************************)
C2_BulkFailFast ==
    Done(BulkOp) =>
        /\ (err # "nil") <=> HasFailure(batch)
        /\ HasFailure(batch) =>
              LET k == FirstFailure(batch)
              IN  /\ i = k
                  /\ err = (IF HeaderFails(batch[k])
                              THEN SerializeBatchHeader(batch[k], <<>>).err
                              ELSE Serialize(batch[k], <<>>).err)
                  /\ w = Pairs(batch, k - 1)
                         \o (IF HeaderFails(batch[k]) THEN <<>>
                             ELSE HeaderText(batch[k]))

C2_Witness ==
    /\ Done(BulkOp) /\ err # "nil"
    /\ i >= 2 /\ i < Len(batch)
    /\ ~HeaderFails(batch[i]) /\ BodyFails(batch[i])
    /\ ~Fails(batch[i + 1])

(***************************************************************************)
(* C3 (as stated): when multi-search serialization returns, the lines of   *)
(* the output that have content are exactly the header and body lines of   *)
(* the members that serialize completely, in member order; no line of a    *)
(* failing member is present.                                              *)
(***************************************************************************)
C3_FailingMemberOmitted ==
    MultiSearchDone =>
        SelectSeq(TextLines(w), LAMBDA l : l # <<>>) = GoodLines(batch)

(***************************************************************************)
(* C4 (as stated): a bulk body serialized without error from n operations  *)
(* has exactly 2*n newline-terminated lines.                               *)
(***************************************************************************)
C4_TwoLinesPerOperation ==
    (Done(BulkOp) /\ err = "nil") => CountNL(w) = 2 * Len(batch)

(***************************************************************************)
(* C4 (amended): every operation writes exactly one header line; Index,    *)
(* Create and Update write exactly one body line and a Delete writes no    *)
(* body at all, so a bulk body serialized without error from n operations, *)
(* d of them Deletes, has exactly 2*n - d newline-terminated lines.        *)
(***************************************************************************)
C4_LinesPerOperation ==
    (Done(BulkOp) /\ err = "nil") =>
        /\ \A j \in 1..Len(batch) :
              /\ CountNL(HeaderText(batch[j])) = 1
              /\ CountNL(BodyText(batch[j]))
                    = (IF batch[j].kind = "delete" THEN 0 ELSE 1)
              /\ batch[j].kind = "delete" => BodyText(batch[j]) = <<>>
        /\ CountNL(w) = 2 * Len(batch) - Deletes(batch)
        /\ (w # <<>> => w[Len(w)] = NL)

C4_Witness ==
    /\ Done(BulkOp) /\ err = "nil"
    /\ Len(batch) >= 2
    /\ Deletes(batch) >= 1
    /\ Deletes(batch) < Len(batch)

(***************************************************************************)
(* C5 (as stated): the output of multi-search serialization ends with a    *)
(* newline for every batch, the empty batch and the batch whose members    *)
(* are all skipped included.                                               *)
(***************************************************************************)
C5_TrailingNewline ==
    MultiSearchDone => (Len(w) > 0 /\ w[Len(w)] = NL)

(***************************************************************************)
(* C6: multi-search serialization never holds or returns an error: it      *)
(* returns nil after visiting every member, having logged one diagnostic   *)
(* per failing member.                                                     *)
(***************************************************************************)
C6_MultiSearchNeverFails ==
    (op \in {MSearchOp, MSBodyOp}) =>
        /\ err = "nil"
        /\ pc = "done" =>
              /\ i = Len(batch) + 1
              /\ logged = Cardinality({j \in 1..Len(batch) : Fails(batch[j])})

C6_Witness ==
    /\ Done(MSearchOp)
    /\ \E j \in 1..Len(batch) : HeaderFails(batch[j])
    /\ \E j \in 1..Len(batch) : ~HeaderFails(batch[j]) /\ BodyFails(batch[j])
    /\ Fails(batch[1])

(***************************************************************************)
(* Reading a batch header line back:                                       *)
(*   { verb : { k1 : v1 , ... , kn : vn } } \n                             *)
(***************************************************************************)
HeaderPairs(t)  == (Len(t) - 6) \div 4
HeaderKeys(t)   == {t[4 * j + 1] : j \in 1..HeaderPairs(t)}
HeaderObject(t) ==
    [k \in HeaderKeys(t) |->
        t[4 * (CHOOSE j \in 1..HeaderPairs(t) : t[4 * j + 1] = k) + 3]]

\* the line is one object with the single top-level key `verb`, whose value
\* is one flat object, followed by a newline
HeaderWellFormed(t, verb) ==
    /\ Len(t) >= 10 /\ (Len(t) - 6) % 4 = 0
    /\ t[1] = "{" /\ t[2] = verb /\ t[3] = ":" /\ t[4] = "{"
    /\ t[Len(t) - 2] = "}" /\ t[Len(t) - 1] = "}" /\ t[Len(t)] = NL
    /\ \A j \in 1..HeaderPairs(t) :
          /\ t[4 * j + 2] = ":"
          /\ j < HeaderPairs(t) => t[4 * j + 4] = ","
    /\ Cardinality(HeaderKeys(t)) = HeaderPairs(t)

HeaderDone == Done("SerializeBatchHeader")

(***************************************************************************)
(* C7: the batch header of an Index, Create, Update or Delete has exactly  *)
(* one top-level key, the verb; its metadata object has the keys _index,   *)
(* _type, _id and the Params keys and no others; every Params key is       *)
(* mapped to the first value given for it (to "" when none was given),     *)
(* later values being dropped.                                             *)
(***************************************************************************)
C7_HeaderParams ==
    HeaderDone =>
        /\ err = "nil"
        /\ HeaderWellFormed(w, req.kind)
        /\ DOMAIN HeaderObject(w) = {"_index", "_type", "_id"} \cup DOMAIN req.Params.m
        /\ \A k \in DOMAIN req.Params.m :
              HeaderObject(w)[k] =
                 (IF Len(req.Params.m[k]) > 0 THEN req.Params.m[k][1] ELSE "")

C7_Witness ==
    /\ HeaderDone
    /\ \E k \in DOMAIN req.Params.m :
          /\ Len(req.Params.m[k]) >= 2
          /\ req.Params.m[k][1] # req.Params.m[k][2]
          /\ HeaderObject(w)[k] = req.Params.m[k][1]
    /\ Cardinality(DOMAIN req.Params.m) >= 2

(***************************************************************************)
(* C8 (as stated): Values() of an operation built without options is an    *)
(* empty mapping, not a nil one.                                           *)
(***************************************************************************)
C8_ValuesNeverNil ==
    (Done("Values") /\ req.Params.isNil) =>
        (~vals.isNil /\ DOMAIN vals.m = {})

(***************************************************************************)
(* C9: SearchRequest.Path is "/" + segment for each of its segments: the   *)
(* comma-joined indices when there are any, "_all" when there are types    *)
(* but no indices, the comma-joined types when there are any, and          *)
(* "_search"; the joined lists keep the given order and repetitions, an    *)
(* empty list contributes no segment, and Path never panics.               *)
(***************************************************************************)
Csv(l) ==
    SelectSeq([j \in 1..(2 * Len(l) - 1) |->
                  IF j % 2 = 1 THEN l[(j + 1) \div 2] ELSE ","],
              LAMBDA x : x # "")

PathSegments(r) ==
    (IF Len(r.Indices) > 0 THEN <<Csv(r.Indices)>>
     ELSE IF Len(r.Types) > 0 THEN << <<"_all">> >> ELSE <<>>)
    \o (IF Len(r.Types) > 0 THEN <<Csv(r.Types)>> ELSE <<>>)
    \o << <<"_search">> >>

NoEmptyName(r) ==
    /\ \A j \in 1..Len(r.Indices) : r.Indices[j] # ""
    /\ \A j \in 1..Len(r.Types) : r.Types[j] # ""

C9_SearchPath ==
    Done("SearchRequest.Path") =>
        LET segs == PathSegments(req)
        IN  /\ path # <<"panic: unreachable">>
            /\ path = Flatten([j \in 1..Len(segs) |-> <<"/">> \o segs[j]])
            /\ Len(segs) = 1 + (IF Len(req.Types) > 0 THEN 2
                                ELSE IF Len(req.Indices) > 0 THEN 1 ELSE 0)
            /\ NoEmptyName(req) =>
                  /\ \A j \in 1..(Len(path) - 1) : ~(path[j] = "/" /\ path[j + 1] = "/")
                  /\ SelectSeq(path, LAMBDA x : x \notin {"/", ",", "_all", "_search"})
                        = req.Indices \o req.Types

C9_Witness ==
    /\ Done("SearchRequest.Path")
    /\ Len(req.Indices) = 0
    /\ Len(req.Types) = 2
    /\ req.Types[1] = "b" /\ req.Types[2] = "b"
    /\ path = <<"/", "_all", "/", "b", ",", "b", "/", "_search">>

(***************************************************************************)
(* C10 (as stated): the _index, _type and _id entries of a batch header    *)
(* equal the operation's Index, Type and Id, whatever keys Params has.     *)
(***************************************************************************)
C10_IdentityKept ==
    HeaderDone =>
        /\ HeaderObject(w)["_index"] = req.Index
        /\ HeaderObject(w)["_type"] = req.Type
        /\ HeaderObject(w)["_id"] = req.Id

====
